---------------------------- MODULE Spec2Model ----------------------------
(***************************************************************************)
(* Door-to-bin assignment over a passability grid: the A* search of        *)
(* tools/astar.py and Door.assign_bin / Door.find_closest_bin of           *)
(* entities/doors.py.                                                      *)
(*                                                                         *)
(* Numbers.  The program computes g, h and f in IEEE-754 doubles, and the  *)
(* order in which it expands cells depends on how sums that are equal as   *)
(* real numbers round (1 + sqrt2 + sqrt2 against 1 + sqrt8).  The model    *)
(* therefore keeps every g, h and f as the double the program holds: the   *)
(* pair <<hi, lo>> stands for (hi * 2^26 + lo) * 2^-52, and FAdd rounds a  *)
(* sum to 53 significant bits, ties to even, as the hardware does.         *)
(*                                                                         *)
(* None is the empty sequence <<>> and a present value v is <<v>>.         *)
(***************************************************************************)
EXTENDS Integers, Sequences, FiniteSets, TLC

\* ------------------------------------------------------------------ bounds
Rows == 2
Cols == 3
MaxObstacles == 2
MaxBins == 2
WideRows == 3
WideCols == 5
WideObstacles == 2
LoopRows == 3
LoopCols == 3
LoopObstacles == 1

None == << >>
Some(v) == << v >>

Abs(n) == IF n < 0 THEN -n ELSE n

\* ----------------------------------------------------------------- doubles
Limb == 2 ^ 26

FZero == << 0, 0 >>
FOne == << Limb, 0 >>

FLess(x, y) == x[1] < y[1] \/ (x[1] = y[1] /\ x[2] < y[2])

RECURSIVE Binade(_, _)
\* the e >= 1 with 2^e <= value < 2^(e+1), for hi >= 2 * Limb
Binade(hi, e) == IF hi < Limb * 2 ^ (e + 1) THEN e ELSE Binade(hi, e + 1)

\* x + y of two doubles that are 0 or >= 1 and whose sum is below 32
FAdd(x, y) ==
    LET lo == (x[2] + y[2]) % Limb
        hi == x[1] + y[1] + ((x[2] + y[2]) \div Limb)
    IN  IF hi < 2 * Limb THEN << hi, lo >>
        ELSE LET u == 2 ^ Binade(hi, 1)
                 r == lo % u
                 base == lo - r
                 up == 2 * r > u \/ (2 * r = u /\ (base \div u) % 2 = 1)
                 kept == IF up THEN base + u ELSE base
             IN  IF kept = Limb THEN << hi + 1, 0 >> ELSE << hi, kept >>

\* np.sqrt / np.linalg.norm: the double nearest to sqrt(k), k a sum of two squares
SqrtDouble(k) ==
    CASE k = 0 -> << 0, 0 >>
      [] k = 1 -> << 67108864, 0 >>
      [] k = 2 -> << 94906265, 41892813 >>
      [] k = 4 -> << 134217728, 0 >>
      [] k = 5 -> << 150059981, 53471568 >>
      [] k = 8 -> << 189812531, 16676762 >>
      [] k = 9 -> << 201326592, 0 >>
      [] k = 10 -> << 212216861, 28620454 >>
      [] k = 13 -> << 241964450, 12760038 >>
      [] k = 16 -> << 268435456, 0 >>
      [] k = 17 -> << 276696934, 46117916 >>
      [] k = 18 -> << 284718796, 58569572 >>
      [] k = 20 -> << 300119963, 39834272 >>
      [] k = 25 -> << 335544320, 0 >>
      [] k = 26 -> << 342189407, 4767704 >>
      [] k = 29 -> << 361392292, 44263372 >>
      [] k = 32 -> << 379625062, 33353524 >>
      [] k = 34 -> << 391308557, 47091336 >>
      [] k = 36 -> << 402653184, 0 >>
      [] k = 37 -> << 408207283, 26177764 >>
      [] k = 40 -> << 424433722, 57240908 >>
      [] k = 41 -> << 429706393, 41942016 >>
      [] k = 45 -> << 450179945, 26196976 >>
      [] k = 49 -> << 469762048, 0 >>
      [] k = 50 -> << 474531328, 8137472 >>

\* np.sqrt(2), the cost of a diagonal step
Sqrt2 == SqrtDouble(2)

\* Astar.heuristic: i = 9 selects the Euclidean branch
heuristic(node, goal) ==
    SqrtDouble((node[1] - goal[1]) * (node[1] - goal[1])
               + (node[2] - goal[2]) * (node[2] - goal[2]))

\* ------------------------------------------------------------------- state
VARIABLES
    shape,      \* grid.shape = <<rows, cols>>
    grid,       \* the passability grid: cell -> 0 (passable) or 255 (obstacle)
    bins,       \* World.bins: the Bin entities in discovery order
    door,       \* the Door: number, x, y, type, assigned_bin, path_to_bin
    astar,      \* the Astar object of the search in progress
    ret,        \* the last completed call: [op, args, kind, val]
    pc          \* "idle", "search" (in find_path's loop) or "done" (it returned)

vars == << shape, grid, bins, door, astar, ret, pc >>

CellsOf(rows, cols) == (0 .. rows - 1) \X (0 .. cols - 1)

Cells == CellsOf(shape[1], shape[2])

\* numpy indexing grid[r, c]: a negative index counts from the end, an index
\* outside -n .. n-1 raises IndexError
IndexOk(cell) ==
    /\ -shape[1] <= cell[1] /\ cell[1] < shape[1]
    /\ -shape[2] <= cell[2] /\ cell[2] < shape[2]

GridAt(cell) ==
    grid[<< (cell[1] + shape[1]) % shape[1], (cell[2] + shape[2]) % shape[2] >>]

\* only the cardinal directions of line 49
directionsCardinal == << <<-1, 0>>, <<1, 0>>, <<0, -1>>, <<0, 1>> >>

\* the 8 directions in the order of the source
directions ==
    << <<-1, 0>>, <<1, 0>>, <<0, -1>>, <<0, 1>>,
       <<-1, -1>>, <<-1, 1>>, <<1, -1>>, <<1, 1>> >>

InBounds(cell) ==
    /\ 0 <= cell[1] /\ cell[1] < shape[1]
    /\ 0 <= cell[2] /\ cell[2] < shape[2]

Shifted(node) == [i \in 1 .. Len(directions) |->
                    << node[1] + directions[i][1], node[2] + directions[i][2] >>]

\* get_neighbors without the passable test of line 58
NeighborOkUnchecked(cell) == InBounds(cell)

NeighborOk(cell) == InBounds(cell) /\ grid[cell] = 0

\* Astar.get_neighbors
get_neighbors(node) == SelectSeq(Shifted(node), NeighborOk)

\* ------------------------------------------------------------------ search
\* Astar.__init__
AstarInit(start, goal) ==
    [ start         |-> start,
      goal          |-> goal,
      open_set      |-> << [f |-> heuristic(start, goal), node |-> start] >>,
      open_set_hash |-> {start},
      closed_set    |-> {},
      came_from     |-> << >>,
      g_score       |-> (start :> FZero),
      f_score       |-> (start :> heuristic(start, goal)) ]

\* no search in progress
NoAstar ==
    [ start |-> <<0, 0>>, goal |-> <<0, 0>>, open_set |-> << >>,
      open_set_hash |-> {}, closed_set |-> {}, came_from |-> << >>,
      g_score |-> << >>, f_score |-> << >> ]

\* d[k] = v for a dict d and a key that may be new
Put(d, k, v) == [x \in DOMAIN d \cup {k} |-> IF x = k THEN v ELSE d[x]]

\* the order on f alone, the node left out of the comparison
EntryLessByF(a, b) == FLess(a.f, b.f)

\* Python's order on the heap's (f, node) tuples
EntryLess(a, b) ==
    \/ FLess(a.f, b.f)
    \/ /\ a.f = b.f
       /\ \/ a.node[1] < b.node[1]
          \/ a.node[1] = b.node[1] /\ a.node[2] < b.node[2]

\* heapq.heappop: the position of the least entry (the first of equal entries)
PopIndex(heap) ==
    CHOOSE i \in 1 .. Len(heap) :
        \A j \in 1 .. Len(heap) :
            /\ ~EntryLess(heap[j], heap[i])
            /\ (heap[j] = heap[i] => i <= j)

RemoveAt(seq, i) == SubSeq(seq, 1, i - 1) \o SubSeq(seq, i + 1, Len(seq))

\* lines 108-111: sqrt(2) for a diagonal step, 1.0 otherwise
MovementCost(current, neighbor) ==
    IF Abs(neighbor[1] - current[1]) = 1 /\ Abs(neighbor[2] - current[2]) = 1
    THEN Sqrt2 ELSE FOne

\* line 123: the neighbor is pushed only when it has no entry in the open set
PushAllowed(a, neighbor) == neighbor \notin a.open_set_hash

\* lines 108-125 for one neighbor that is not closed
Relax(a, current, neighbor) ==
    LET tentative_g == FAdd(a.g_score[current], MovementCost(current, neighbor))
        better == \/ neighbor \notin DOMAIN a.g_score
                  \/ FLess(tentative_g, a.g_score[neighbor])
        new_f == FAdd(tentative_g, heuristic(neighbor, a.goal))
        pushed == PushAllowed(a, neighbor)
    IN  IF ~better THEN a
        ELSE [ a EXCEPT
                 !.came_from = Put(@, neighbor, current),
                 !.g_score = Put(@, neighbor, tentative_g),
                 !.f_score = Put(@, neighbor, new_f),
                 !.open_set = IF pushed
                              THEN Append(@, [f |-> new_f, node |-> neighbor])
                              ELSE @,
                 !.open_set_hash = IF pushed THEN @ \cup {neighbor} ELSE @ ]

RECURSIVE Explore(_, _, _)
\* lines 104-125: the loop over get_neighbors(current)
Explore(a, current, neighbors) ==
    IF neighbors = << >> THEN a
    ELSE LET n == Head(neighbors)
             b == IF n \in a.closed_set THEN a ELSE Relax(a, current, n)
         IN  Explore(b, current, Tail(neighbors))

RECURSIVE Walk(_, _, _)
\* reconstruct_path's loop: goal, its parent, ... while current in came_from
Walk(came_from, current, fuel) ==
    IF current \in DOMAIN came_from /\ fuel > 0
    THEN << current >> \o Walk(came_from, came_from[current], fuel - 1)
    ELSE << >>

Reverse(seq) == [i \in 1 .. Len(seq) |-> seq[Len(seq) + 1 - i]]

\* Astar.reconstruct_path
reconstruct_path(a) ==
    Reverse(Walk(a.came_from, a.goal, Cardinality(DOMAIN a.came_from))
            \o << a.start >>)

\* What a piece of find_path leaves: the Astar object, and whether the loop
\* goes on ("loop"), find_path returned val ("return") or raised val ("raise").
Outcome(a, status, val) == [astar |-> a, status |-> status, val |-> val]

\* the blocked checks without the start test of lines 80-82
BlockedGoalOnly(a) ==
    IF ~IndexOk(a.goal) THEN Outcome(a, "raise", "IndexError")
    ELSE IF GridAt(a.goal) # 0 THEN Outcome(a, "return", None)
    ELSE Outcome(a, "loop", None)

\* lines 79-85: the blocked checks
Blocked(a) ==
    IF ~IndexOk(a.start) THEN Outcome(a, "raise", "IndexError")
    ELSE IF GridAt(a.start) # 0 THEN Outcome(a, "return", None)
    ELSE IF ~IndexOk(a.goal) THEN Outcome(a, "raise", "IndexError")
    ELSE IF GridAt(a.goal) # 0 THEN Outcome(a, "return", None)
    ELSE Outcome(a, "loop", None)

\* the loop iteration without closed_set.add(current) of line 97
LoopStepUnclosed(a) ==
    IF a.open_set = << >> THEN Outcome(a, "return", None)
    ELSE LET i == PopIndex(a.open_set)
             current == a.open_set[i].node
             popped == [a EXCEPT !.open_set = RemoveAt(@, i),
                                 !.open_set_hash = @ \ {current}]
         IN  IF current \notin a.open_set_hash
                 THEN Outcome([a EXCEPT !.open_set = RemoveAt(@, i)],
                              "raise", "KeyError")
             ELSE IF current \in a.closed_set THEN Outcome(popped, "loop", None)
             ELSE IF current = a.goal
                 THEN Outcome(popped, "return", Some(reconstruct_path(popped)))
             ELSE Outcome(Explore(popped, current, get_neighbors(current)),
                          "loop", None)

\* lines 87-128: the loop test and one iteration of the loop
LoopStep(a) ==
    IF a.open_set = << >> THEN Outcome(a, "return", None)
    ELSE LET i == PopIndex(a.open_set)
             current == a.open_set[i].node
             popped == [a EXCEPT !.open_set = RemoveAt(@, i),
                                 !.open_set_hash = @ \ {current}]
             closed == [popped EXCEPT !.closed_set = @ \cup {current}]
         IN  IF current \notin a.open_set_hash
                 THEN Outcome([a EXCEPT !.open_set = RemoveAt(@, i)],
                              "raise", "KeyError")
             ELSE IF current \in a.closed_set THEN Outcome(popped, "loop", None)
             ELSE IF current = a.goal
                 THEN Outcome(closed, "return", Some(reconstruct_path(closed)))
             ELSE Outcome(Explore(closed, current, get_neighbors(current)),
                          "loop", None)

RECURSIVE Loop(_)
\* the loop goes on after an iteration that neither returned nor raised
Continue(o) == IF o.status = "loop" THEN Loop(o.astar) ELSE o

\* the while loop run to its end
Loop(a) == Continue(LoopStep(a))

\* Astar.find_path
find_path(a) == Continue(Blocked(a))

\* find_shortest_path(start, goal, grid)
find_shortest_path(start, goal) == find_path(AstarInit(start, goal))

\* ---------------------------------------------------------------- entities
\* Bin(number, x, y): x is the column and y the row of the grid cell
Bin(number, x, y) == [number |-> number, x |-> x, y |-> y, type |-> "bin"]

\* Door.__init__
Door(number, x, y) ==
    [number |-> number, x |-> x, y |-> y, type |-> "door",
     assigned_bin |-> None, path_to_bin |-> None]

Called(op, args, kind, val) == [op |-> op, args |-> args, kind |-> kind, val |-> val]

\* what a finished find_path hands to its caller
Returned(op, args, o) ==
    IF o.status = "raise" THEN Called(op, args, "raise", o.val)
    ELSE IF o.val = None THEN Called(op, args, "None", None)
    ELSE Called(op, args, "path", o.val[1])

\* ------------------------------------------------- find_shortest_path, by steps
\* find_shortest_path(start, goal, grid): Astar.__init__ and find_path up to its loop
Call(start, goal) ==
    /\ pc = "idle"
    /\ LET o == Blocked(AstarInit(start, goal))
       IN  IF o.status = "loop"
           THEN /\ astar' = o.astar
                /\ pc' = "search"
                /\ ret' = Called("find_shortest_path", << start, goal >>, "running", None)
           ELSE /\ astar' = NoAstar
                /\ pc' = "done"
                /\ ret' = Returned("find_shortest_path", << start, goal >>, o)
    /\ UNCHANGED << shape, grid, bins, door >>

\* one iteration of find_path's loop, or its end
SearchStep ==
    /\ pc = "search"
    /\ LET o == LoopStep(astar)
       IN  IF o.status = "loop"
           THEN /\ astar' = o.astar
                /\ UNCHANGED << ret, pc >>
           ELSE /\ astar' = NoAstar
                /\ pc' = "done"
                /\ ret' = Returned("find_shortest_path", ret.args, o)
    /\ UNCHANGED << shape, grid, bins, door >>

\* ------------------------------------------------------------------- Door
\* Door.assign_bin
AssignBin(bin_entity) ==
    /\ pc = "idle"
    /\ IF bin_entity.type # "bin"
       THEN /\ ret' = Called("assign_bin", bin_entity.number, "raise", "ValueError")
            /\ UNCHANGED door
       ELSE /\ door' = [door EXCEPT !.assigned_bin = Some(bin_entity.number)]
            /\ ret' = Called("assign_bin", bin_entity.number, "None", None)
    /\ UNCHANGED << shape, grid, bins, astar, pc >>

\* lines 26-28: closest_bin, shortest_path, shortest_distance (None: float('inf'))
ScanStart ==
    [closest_bin |-> None, shortest_path |-> None, shortest_distance |-> None,
     raised |-> None]

\* line 42 with <= for <
ShorterOrEqual(path_length, shortest_distance) ==
    shortest_distance = None \/ path_length <= shortest_distance[1]

\* line 42
Shorter(path_length, shortest_distance) ==
    shortest_distance = None \/ path_length < shortest_distance[1]

\* lines 40-45 without the None test of line 40: len(None) raises TypeError
ScanFoundUnchecked(st, bin_entity, o) ==
    IF o.status = "raise" THEN [st EXCEPT !.raised = Some(o.val)]
    ELSE IF o.val = None THEN [st EXCEPT !.raised = Some("TypeError")]
    ELSE IF Shorter(Len(o.val[1]), st.shortest_distance)
         THEN [st EXCEPT !.shortest_distance = Some(Len(o.val[1])),
                         !.shortest_path = o.val,
                         !.closest_bin = Some(bin_entity)]
         ELSE st

\* lines 40-45: what the loop body does with o, the outcome of find_shortest_path
ScanFound(st, bin_entity, o) ==
    IF o.status = "raise" THEN [st EXCEPT !.raised = Some(o.val)]
    ELSE IF o.val = None THEN st
    ELSE IF Shorter(Len(o.val[1]), st.shortest_distance)
         THEN [st EXCEPT !.shortest_distance = Some(Len(o.val[1])),
                         !.shortest_path = o.val,
                         !.closest_bin = Some(bin_entity)]
         ELSE st

\* lines 35-45: the loop body for one bin
ScanBin(st, bin_entity) ==
    ScanFound(st, bin_entity,
              find_shortest_path(<< door.y, door.x >>,
                                 << bin_entity.y, bin_entity.x >>))

RECURSIVE ScanBins(_, _)
\* lines 33-45: for bin_entity in bins
ScanBins(st, rest) ==
    IF rest = << >> \/ st.raised # None THEN st
    ELSE ScanBins(ScanBin(st, Head(rest)), Tail(rest))

\* lines 47-54: what find_closest_bin does once the loop has left st
Resolved(arg, st) ==
    IF st.raised # None
    THEN /\ ret' = Called("find_closest_bin", arg, "raise", st.raised[1])
         /\ UNCHANGED door
    ELSE IF st.closest_bin # None
    THEN /\ door' = [door EXCEPT
                       !.assigned_bin = Some(st.closest_bin[1].number),
                       !.path_to_bin = st.shortest_path]
         /\ ret' = Called("find_closest_bin", arg, "bin", st.closest_bin[1])
    ELSE /\ ret' = Called("find_closest_bin", arg, "None", None)
         /\ UNCHANGED door

\* Door.find_closest_bin(bins, map_grid)
FindClosestBin(arg) ==
    /\ pc = "idle"
    /\ IF arg = << >>
       THEN /\ ret' = Called("find_closest_bin", arg, "None", None)
            /\ UNCHANGED door
       ELSE Resolved(arg, ScanBins(ScanStart, arg))
    /\ UNCHANGED << shape, grid, bins, astar, pc >>

\* ------------------------------------------------------------ specifications
ObstacleGrid(rows, cols, obstacles) ==
    [c \in CellsOf(rows, cols) |-> IF c \in obstacles THEN 255 ELSE 0]

\* the grids of a shape with at most n obstacle cells
Grids(rows, cols, n) ==
    { ObstacleGrid(rows, cols, obs) :
        obs \in { s \in SUBSET CellsOf(rows, cols) : Cardinality(s) <= n } }

RowMajor(c, d) == c[1] < d[1] \/ (c[1] = d[1] /\ c[2] < d[2])

\* World.bins: bins at distinct cells (add_bin), numbered from 1
Registries(rows, cols, n) ==
    { r \in UNION { [1 .. k -> CellsOf(rows, cols)] : k \in 0 .. n } :
        \A i, j \in 1 .. Len(r) : i < j => RowMajor(r[i], r[j]) }

World(r) == [i \in 1 .. Len(r) |-> Bin(i, r[i][2], r[i][1])]

\* the bin lists a caller can build from World.bins: distinct bins in any order
BinLists ==
    { l \in UNION { [1 .. k -> 1 .. Len(bins)] : k \in 0 .. Len(bins) } :
        \A i, j \in 1 .. Len(l) : i # j => l[i] # l[j] }

Fresh == Called("none", None, "None", None)

InitGrid(rows, cols, n) ==
    /\ shape = << rows, cols >>
    /\ grid \in Grids(rows, cols, n)
    /\ astar = NoAstar
    /\ ret = Fresh
    /\ pc = "idle"

\* one search between two cells of a small grid
Init ==
    /\ InitGrid(Rows, Cols, MaxObstacles)
    /\ bins = << >>
    /\ door = Door(1, 0, 0)

Next ==
    \/ \E start \in Cells, goal \in Cells : Call(start, goal)
    \/ SearchStep

Spec == Init /\ [][Next]_vars

\* a door anywhere on a small grid and the bins of its world
InitDoor ==
    /\ InitGrid(Rows, Cols, MaxObstacles)
    /\ bins \in { World(r) : r \in Registries(Rows, Cols, MaxBins) }
    /\ \E c \in CellsOf(Rows, Cols) : door = Door(1, c[2], c[1])

NextDoor ==
    \/ \E i \in 1 .. Len(bins) : AssignBin(bins[i])
    \/ AssignBin(door)
    \/ \E l \in BinLists : FindClosestBin([i \in 1 .. Len(l) |-> bins[l[i]]])

SpecDoor == InitDoor /\ [][NextDoor]_vars

\* the same door, resolved again and again and never assigned by hand
NextResolve ==
    \E l \in BinLists : FindClosestBin([i \in 1 .. Len(l) |-> bins[l[i]]])

SpecResolve == InitDoor /\ [][NextResolve]_vars

\* one search on a wider grid
InitWide ==
    /\ InitGrid(WideRows, WideCols, WideObstacles)
    /\ bins = << >>
    /\ door = Door(1, 0, 0)

SpecWide == InitWide /\ [][Next]_vars

\* Scenario B: the 3x3 grid whose only obstacle is its centre
InitScenarioB ==
    /\ shape = << 3, 3 >>
    /\ grid = ObstacleGrid(3, 3, { <<1, 1>> })
    /\ astar = NoAstar
    /\ ret = Fresh
    /\ pc = "idle"
    /\ bins = << >>
    /\ door = Door(1, 0, 0)

SpecScenarioB == InitScenarioB /\ [][Next]_vars

\* one search on a square grid
InitLoop ==
    /\ InitGrid(LoopRows, LoopCols, LoopObstacles)
    /\ bins = << >>
    /\ door = Door(1, 0, 0)

SpecLoop == InitLoop /\ [][Next]_vars

\* one search whose start or goal may lie one cell outside the grid
Around == (-1 .. shape[1]) \X (-1 .. shape[2])

NextOutside ==
    \/ \E start \in Around, goal \in Around : Call(start, goal)
    \/ SearchStep

SpecOutside == Init /\ [][NextOutside]_vars

\* ------------------------------------------------------- walkable routes, costs
Passable(cell) == InBounds(cell) /\ grid[cell] = 0

KingAdjacent(c, d) ==
    c # d /\ Abs(c[1] - d[1]) <= 1 /\ Abs(c[2] - d[2]) <= 1

RECURSIVE Flood(_)
\* the passable cells a walk of king moves reaches from the cells of seen
Flood(seen) ==
    LET more == { c \in Cells : Passable(c) /\ \E d \in seen : KingAdjacent(c, d) }
    IN  IF more \subseteq seen THEN seen ELSE Flood(seen \cup more)

\* a walkable 8-connected route of passable cells joins start and goal
Walkable(start, goal) ==
    Passable(start) /\ Passable(goal) /\ goal \in Flood({start})

IsDiagonal(c, d) == c[1] # d[1] /\ c[2] # d[2]

Diagonals(path) ==
    Cardinality({ i \in 1 .. Len(path) - 1 : IsDiagonal(path[i], path[i + 1]) })

Cardinals(path) == Len(path) - 1 - Diagonals(path)

\* a + b*sqrt(2) <= c + d*sqrt(2), decided in integers
CostLeq(a, b, c, d) ==
    LET p == a - c
        q == d - b
    IN  IF p <= 0 /\ q >= 0 THEN TRUE
        ELSE IF p >= 0 /\ q <= 0 THEN FALSE
        ELSE IF p > 0 THEN p * p <= 2 * q * q
        ELSE p * p >= 2 * q * q

\* the cheaper of two costs <<cardinal steps, diagonal steps>>
Cheaper(u, v) == IF CostLeq(u[1], u[2], v[1], v[2]) THEN u ELSE v

RECURSIVE CheapestOf(_)
CheapestOf(costs) ==
    LET u == CHOOSE x \in costs : TRUE
    IN  IF costs = {u} THEN u ELSE Cheaper(u, CheapestOf(costs \ {u}))

\* the cost of the route that reaches d at cost u and steps on to c
Onward(u, d, c) ==
    IF IsDiagonal(c, d) THEN << u[1], u[2] + 1 >> ELSE << u[1] + 1, u[2] >>

RECURSIVE Settle(_)
\* best: pairs <<cell, least cost found>>; relaxed until nothing improves
Settle(best) ==
    LET reach == { c \in Cells : Passable(c) /\ \E p \in best :
                                    p[1] = c \/ KingAdjacent(c, p[1]) }
        found(c) == { p[2] : p \in { q \in best : q[1] = c } }
                    \cup { Onward(p[2], p[1], c) :
                           p \in { q \in best : KingAdjacent(c, q[1]) } }
        next == { << c, CheapestOf(found(c)) >> : c \in reach }
    IN  IF next = best THEN best ELSE Settle(next)

\* the least cost <<cardinal, diagonal>> of a walkable route from start to goal
LeastCost(start, goal) ==
    (CHOOSE p \in Settle({ << start, << 0, 0 >> >> }) : p[1] = goal)[2]

\* ------------------------------------------------------------------ claims
Searched == pc = "done" /\ ret.op = "find_shortest_path"

Start == ret.args[1]
Goal == ret.args[2]

ValidPath(path, start, goal) ==
    /\ Len(path) >= 1
    /\ path[1] = start
    /\ path[Len(path)] = goal
    /\ \A i \in 1 .. Len(path) : Passable(path[i])
    /\ \A i \in 1 .. Len(path) - 1 : KingAdjacent(path[i], path[i + 1])

C4_NoPath ==
    (Searched /\ InBounds(Start) /\ InBounds(Goal) /\ ~Walkable(Start, Goal))
        => ret.kind = "None"

\* C4 witness: None for two passable cells that the obstacles separate
C4_Witness ==
    /\ Searched /\ ret.kind = "None"
    /\ Passable(Start) /\ Passable(Goal)
    /\ ~Walkable(Start, Goal)

\* C1: when a walkable route joins the in-bounds passable start and goal, the
\* returned path costs no more (1 per cardinal, sqrt 2 per diagonal step) than
\* any walkable path from start to goal.
C1_Optimal ==
    (Searched /\ Walkable(Start, Goal))
        => /\ ret.kind = "path"
           /\ CostLeq(Cardinals(ret.val), Diagonals(ret.val),
                      LeastCost(Start, Goal)[1], LeastCost(Start, Goal)[2])

ScenarioB == Searched /\ Start = <<0, 0>> /\ Goal = <<2, 2>>

\* C8 as stated: in Scenario B the path from (0,0) to (2,2) avoids (1,1) and
\* has 5 cells and the cost of four cardinal steps.
C8_FiveCells ==
    ScenarioB
        => /\ ret.kind = "path"
           /\ \A i \in 1 .. Len(ret.val) : ret.val[i] # <<1, 1>>
           /\ Len(ret.val) = 5
           /\ Cardinals(ret.val) = 4 /\ Diagonals(ret.val) = 0

\* C8 amended: in Scenario B the path from (0,0) to (2,2) avoids (1,1) and is
\* the least-cost one, <<(0,0), (0,1), (1,2), (2,2)>>: 4 cells, two cardinal
\* steps and one diagonal step (cost 2 + sqrt 2).
C8_FourCells ==
    ScenarioB
        => /\ ret.kind = "path"
           /\ \A i \in 1 .. Len(ret.val) : ret.val[i] # <<1, 1>>
           /\ ret.val = << <<0, 0>>, <<0, 1>>, <<1, 2>>, <<2, 2>> >>
           /\ Cardinals(ret.val) = 2 /\ Diagonals(ret.val) = 1
           /\ << Cardinals(ret.val), Diagonals(ret.val) >> = LeastCost(Start, Goal)

\* C8 witness: the Scenario B search has returned a path
C8_Witness == ScenarioB /\ ret.kind = "path" /\ grid[<<1, 1>>] # 0

\* C9: with start or goal outside the grid the result is None: no path, no
\* exception, no read of a wrapped-around cell.
C9_OutsideIsNoPath ==
    (Searched /\ (~InBounds(Start) \/ ~InBounds(Goal))) => ret.kind = "None"

\* C10: a neighbor whose g improves gets a new open-set entry keyed by its new
\* f, also when it already has one: every open cell has an entry that carries
\* its current f.
C10_EntryCarriesCurrentF ==
    pc = "search"
        => \A n \in (DOMAIN astar.g_score) \ astar.closed_set :
               \E i \in 1 .. Len(astar.open_set) :
                   /\ astar.open_set[i].node = n
                   /\ astar.open_set[i].f = astar.f_score[n]

\* ------------------------------------------------------- claims, expansion order
\* a loop iteration is about to pop an entry
Popping == pc = "search" /\ astar.open_set # << >>

\* the cell the iteration expands: the one it adds to closed_set, or the goal
\* when it returns the path
Expanded ==
    IF pc' = "search"
    THEN CHOOSE n \in astar'.closed_set : n \notin astar.closed_set
    ELSE astar.goal

\* the positions of the open-set entries that carry the lowest f
LowestF ==
    { i \in 1 .. Len(astar.open_set) :
        \A j \in 1 .. Len(astar.open_set) :
            ~FLess(astar.open_set[j].f, astar.open_set[i].f) }

\* the entry of lowest f that was pushed first
FirstPushed ==
    astar.open_set[CHOOSE i \in LowestF : \A j \in LowestF : i <= j].node

\* the cell of lowest f that is least by (row, column)
LeastCell ==
    CHOOSE n \in { astar.open_set[i].node : i \in LowestF } :
        \A i \in LowestF : n = astar.open_set[i].node
                           \/ RowMajor(n, astar.open_set[i].node)

\* C11 as stated: among the entries of lowest f the one pushed first is
\* expanded first, whatever the cells' coordinates.
C11_FirstPushedFirst ==
    [][ Popping => Expanded = FirstPushed ]_vars

\* C11 amended: among the entries of lowest f the one whose cell is least by
\* (row, column) is expanded first, whatever the order they were pushed in.
C11_LeastCellFirst ==
    [][ Popping => Expanded = LeastCell ]_vars

\* the position in directions of the step from one cell to a neighbor
DirectionIndex(from, to) ==
    CHOOSE i \in 1 .. Len(directions) : Shifted(from)[i] = to

\* C11 witness: the start and one neighbor n of it have been expanded while
\* another neighbor m of the start, pushed before n, is still in the open set
\* with the same f: n went first because it is the lesser cell
C11_Witness ==
    /\ pc = "search"
    /\ Cardinality(astar.closed_set) = 2
    /\ \E n \in astar.closed_set \ {astar.start} :
         \E i \in 1 .. Len(astar.open_set) :
            LET m == astar.open_set[i].node
            IN  /\ KingAdjacent(astar.start, m)
                /\ astar.open_set[i].f = astar.f_score[n]
                /\ DirectionIndex(astar.start, m) < DirectionIndex(astar.start, n)
                /\ RowMajor(n, m)

\* ------------------------------------------------------- claims, termination
\* no cell of closed_set has an entry in the open set, and closed_set holds
\* cells of the grid only
ClosedStayClosed ==
    /\ astar.closed_set \subseteq Cells
    /\ \A i \in 1 .. Len(astar.open_set) :
           astar.open_set[i].node \notin astar.closed_set

\* an iteration after which the loop goes on has closed one more cell
ClosesOneMore ==
    (pc = "search" /\ pc' = "search")
        => /\ astar.closed_set \subseteq astar'.closed_set
           /\ Cardinality(astar'.closed_set) = Cardinality(astar.closed_set) + 1

\* C12: every search terminates, with a path or with None: each iteration
\* after which the loop goes on has closed a cell of the grid that was not
\* closed, and no closed cell is in the open set again, so the loop runs at
\* most as many iterations as the grid has cells.
C12_Terminates ==
    /\ [](pc = "search" => ClosedStayClosed)
    /\ [][ClosesOneMore]_vars
    /\ [](Searched => ret.kind \in {"path", "None"})

\* C12 witness: a search under way in which an open cell had its g lowered
\* after it was pushed (its entry carries the older f) and borders a closed cell
C12_Witness ==
    /\ pc = "search"
    /\ Cardinality(astar.closed_set) >= 2
    /\ \E i \in 1 .. Len(astar.open_set) :
         /\ astar.open_set[i].f # astar.f_score[astar.open_set[i].node]
         /\ \E n \in astar.closed_set : KingAdjacent(n, astar.open_set[i].node)

\* ------------------------------------------------------------ claims, Door
DoorCell == << door.y, door.x >>
BinCell(b) == << b.y, b.x >>

FoundClosest == pc = "idle" /\ ret.op = "find_closest_bin"

\* what find_shortest_path returns from the door's cell to bin b: <<path>> or None
PathTo(b) == find_shortest_path(DoorCell, BinCell(b)).val

\* the positions of arg whose bins find_shortest_path returns a path for
WithPath(arg) ==
    { i \in 1 .. Len(arg) :
        find_shortest_path(DoorCell, BinCell(arg[i])).status = "return"
        /\ PathTo(arg[i]) # None }

\* the first position of arg among those whose path has the fewest cells
FirstShortest(arg) ==
    CHOOSE i \in WithPath(arg) :
        \A j \in WithPath(arg) :
            \/ Len(PathTo(arg[i])[1]) < Len(PathTo(arg[j])[1])
            \/ Len(PathTo(arg[i])[1]) = Len(PathTo(arg[j])[1]) /\ i <= j

\* C3: with a non-empty bin list, among the bins a path is returned for, the
\* bin whose path has the fewest cells is selected, the first in the list on a
\* tie; it is returned and written to the door together with its path.
C3_FirstShortest ==
    (FoundClosest /\ ret.args # << >> /\ WithPath(ret.args) # {})
        => LET chosen == ret.args[FirstShortest(ret.args)]
           IN  /\ ret.kind = "bin"
               /\ ret.val = chosen
               /\ door.assigned_bin = Some(chosen.number)
               /\ door.path_to_bin = PathTo(chosen)

\* C3 witness: two bins tie on the cell count and the first listed, which is
\* not the lower-numbered one, is selected
C3_Witness ==
    /\ FoundClosest /\ ret.kind = "bin"
    /\ Len(ret.args) = 2
    /\ WithPath(ret.args) = {1, 2}
    /\ Len(PathTo(ret.args[1])[1]) = Len(PathTo(ret.args[2])[1])
    /\ ret.args[1].number > ret.args[2].number
    /\ ret.val = ret.args[1]
    /\ door.assigned_bin = Some(ret.args[1].number)

Unassigned == door.assigned_bin = None /\ door.path_to_bin = None

\* the cell of the bin of World.bins that carries a number
CellOfBin(number) ==
    BinCell(bins[CHOOSE i \in 1 .. Len(bins) : bins[i].number = number])

\* C5: in every state of a Door, assigned_bin is present iff path_to_bin is
\* present and non-empty, and then the path runs from the door's cell to the
\* cell of the bin numbered assigned_bin.
C5_DoorInvariant ==
    /\ (door.assigned_bin # None)
          <=> (door.path_to_bin # None /\ door.path_to_bin # Some(<< >>))
    /\ (door.assigned_bin # None /\ door.path_to_bin # None
           /\ door.path_to_bin # Some(<< >>))
          => /\ door.path_to_bin[1][1] = DoorCell
             /\ door.path_to_bin[1][Len(door.path_to_bin[1])]
                    = CellOfBin(door.assigned_bin[1])

\* C6: after every find_closest_bin the door's two fields are what that call's
\* inputs determine: both absent when it finds no bin, the selected bin and
\* its path when it finds one.
C6_Overwritten ==
    (FoundClosest /\ ret.kind # "raise")
        => IF WithPath(ret.args) = {}
           THEN Unassigned
           ELSE /\ door.assigned_bin = Some(ret.args[FirstShortest(ret.args)].number)
                /\ door.path_to_bin = PathTo(ret.args[FirstShortest(ret.args)])

\* no bin of arg has a walkable route from the door
NoneWalkable(arg) ==
    \A i \in 1 .. Len(arg) : ~Walkable(DoorCell, BinCell(arg[i]))

\* C7: find_closest_bin on an unassigned door, with an empty list or with bins
\* none of which is reachable, returns None, raises nothing and leaves
\* assigned_bin and path_to_bin absent.
C7_NoCandidates ==
    [][ (Unassigned /\ ret'.op = "find_closest_bin" /\ NoneWalkable(ret'.args))
           => (ret'.kind = "None" /\ Unassigned') ]_vars

\* C7 witness: a call with bins, none reachable, has returned None and the
\* door is unassigned
C7_Witness ==
    /\ FoundClosest /\ ret.kind = "None"
    /\ Len(ret.args) = 2
    /\ NoneWalkable(ret.args)
    /\ Passable(DoorCell)
    /\ Unassigned

=============================================================================
